---- MODULE Spec2Model ----
(***************************************************************************)
(* pget (pyget/main.py): run_tasks downloads a list of URLs concurrently   *)
(* on a ThreadPoolExecutor, one download() call per URL, each with its own *)
(* tqdm progress row and a shared threading.Event as cancellation token;   *)
(* format_output then reports the futures that hold an exception.          *)
(*                                                                         *)
(* The main thread and every download are processes with a program         *)
(* counter; one action is one step of one of them.  A KeyboardInterrupt is *)
(* raised asynchronously in the main thread, at whichever statement it is  *)
(* executing.  The batches modelled are no longer than the executor's      *)
(* default worker count, so every submitted download has a thread.         *)
(***************************************************************************)
EXTENDS Integers, Sequences, FiniteSets, TLC

\* ------------------------------------------------------------------ bounds

MaxUrls == 2          \* longest input URL list
MaxChunks == 2        \* chunks in the longest response body
MaxInterrupts == 1    \* SIGINTs delivered to the main thread in one run
MaxRuns == 2          \* run_tasks calls on the same output directory
MaxUrlsRuns == 1      \* longest input URL list of a batch that is run again

\* ------------------------------------------------------- program constants

ChunkSize == 1024     \* download(chunk_size=1024)
StatusOk == 200       \* validate_response: resp.status_code != 200

\* the status codes a server answers with in the model: 200 and one other
Statuses == {StatusOk, 404}

\* ------------------------------------------------------------------ inputs

\* URLs are strings, modelled as sequences of characters.  Two of them end
\* in the same path segment, one is longer than the others.
UrlPool ==
    { <<"h", "/", "a">>, <<"m", "/", "a">>, <<"h", "/", "d", "/", "b">> }

UrlLists == UNION { [1..n -> UrlPool] : n \in 0..MaxUrls }

\* Body sizes (bytes) a server may send: empty, or MaxChunks chunks of which
\* the last is short.
BodySizes == { 0, ChunkSize * MaxChunks - 48 }

\* What requests.get returns: status, whether the content-length header is
\* there (its value is the body size), and the body.  A response that is
\* not read (it fails validation) carries no body in the model.
Responses ==
    { r \in [status : Statuses, hasCL : BOOLEAN, body : BodySizes] :
        (r.status # StatusOk \/ ~r.hasCL) => r.body = 0 }

NoResponse == [status |-> 0, hasCL |-> FALSE, body |-> 0]

\* ----------------------------------------------------------- pure helpers

Max(a, b) == IF a >= b THEN a ELSE b
Min(a, b) == IF a <= b THEN a ELSE b

Spaces(n) == [j \in 1..n |-> " "]

\* index of the last "/" of url, 0 when there is none
LastSlash(url) ==
    LET slashes == { j \in 1..Len(url) : url[j] = "/" }
    IN  IF slashes = {} THEN 0
        ELSE CHOOSE j \in slashes : \A l \in slashes : l <= j

\* url.split('/')[-1]
FileName(url) == SubSeq(url, LastSlash(url) + 1, Len(url))

\* len(max(urls, key=len)) + 1, for a non-empty list
MaxLabelSize(us) ==
    (CHOOSE m \in { Len(us[j]) : j \in 1..Len(us) } :
        \A j \in 1..Len(us) : Len(us[j]) <= m) + 1

\* "{:<W}".format(label): label padded on the right to W characters
FormatLabel(label, w) == label \o Spaces(Max(0, w - Len(label)))

ReasonStatus(code) == <<"Status code ", ToString(code)>>
ReasonNotAFile == <<"Response is not a file">>

\* validate_response: <<valid, reason>>
ValidateResponse_NoHeaderCheck(resp) ==
    IF resp.status # StatusOk THEN <<FALSE, ReasonStatus(resp.status)>>
    ELSE <<TRUE, <<>>>>

ValidateResponse(resp) ==
    IF resp.status # StatusOk THEN <<FALSE, ReasonStatus(resp.status)>>
    ELSE IF ~resp.hasCL THEN <<FALSE, ReasonNotAFile>>
    ELSE <<TRUE, <<>>>>

\* f"{url} Failed to fetch. {reason}"
FailText(url, reason) == url \o <<" ", "Failed to fetch.", " ">> \o reason

\* number of chunks resp.iter_content(chunk_size) yields for a body
NChunks(body) == (body + ChunkSize - 1) \div ChunkSize

\* the k-th chunk of the body of url
Chunk(url, body, k) ==
    [src |-> url, seq |-> k, len |-> Min(ChunkSize, body - (k - 1) * ChunkSize)]

\* size // chunk_size
MaxIterations(size) == size \div ChunkSize

\* ------------------------------------------------------------------- state

VARIABLES
    resDirExists,  \* whether res_dir exists when run_tasks is called
    urls,          \* the input URL list
    pcMain,        \* the statement of run_tasks / main the main thread is at
    exc,           \* the exception the main thread is unwinding with, or "none"
    interrupts,    \* SIGINTs delivered so far
    maxLen,        \* run_tasks: max_len
    rows,          \* run_tasks: progress_bars, one tqdm row per URL
    ev,            \* run_tasks: the threading.Event, TRUE when set
    idx,           \* URLs submitted so far by the dict comprehension
    futures,       \* run_tasks: the futures dict, in insertion order
    pc,            \* per download: the statement of download() it is at
    resp,          \* per download: the response of requests.get
    nread,         \* per download: chunks iter_content has yielded
    fh,            \* per download: the file object f: "none", "open", "closed"
    pos,           \* per download: chunks written through f (its position)
    fut,           \* per download: its Future: done, exception
    files,         \* the output directory: file name -> exists, data
    stderr,        \* what format_output wrote to sys.stderr
    wroteAfterSet, \* per download: f.write calls made while ev was set
    readAfterSet,  \* per download: chunks received while ev was set
    doneOrder,     \* the downloads that have finished, in completion order
    startedAfterSet, \* per download: it began executing while ev was set
    run,           \* the number of the current run_tasks call
    files0,        \* the output directory as the current call found it
    prevSet        \* the Event of the previous call was set when it ended

vars ==
    <<resDirExists, urls, pcMain, exc, interrupts, maxLen, rows, ev, idx,
      futures, pc, resp, nread, fh, pos, fut, files, stderr, wroteAfterSet,
      readAfterSet, doneOrder, startedAfterSet, run, files0,
      prevSet>>

mainVars == <<pcMain, exc, interrupts, maxLen, idx, futures, stderr>>
inputVars == <<resDirExists, urls, run, files0, prevSet>>
histVars == <<wroteAfterSet, readAfterSet, doneOrder, startedAfterSet>>

Tasks == 1..Len(urls)

FileNames == { FileName(u) : u \in UrlPool }

\* a tqdm() row as constructed: no description, total None (-1), n = 0
NewRow == [desc |-> <<>>, total |-> -1, n |-> 0, closed |-> FALSE]

\* tqdm.set_description keeps the text followed by ": "
SetDescription(row, text) == [row EXCEPT !.desc = text \o <<": ">>]

\* tqdm.update(1): a closed (disabled) row ignores it
UpdateRow(row) == IF row.closed THEN row ELSE [row EXCEPT !.n = @ + 1]

NoFile == [exists |-> FALSE, data |-> <<>>]

\* a download has left download(): by which return, or by an exception
Terminal(t) == pc[t] \in {"ret_invalid", "ret_cancel", "ret_end", "raised"}

\* a download that was handed to the executor and has not finished
Running(t) == pc[t] # "unsubmitted" /\ ~Terminal(t)

Init ==
    /\ resDirExists \in BOOLEAN
    /\ urls \in UrlLists
    /\ pcMain = "assert"
    /\ exc = "none"
    /\ interrupts = 0
    /\ maxLen = 0
    /\ rows = <<>>
    /\ ev = FALSE
    /\ idx = 0
    /\ futures = <<>>
    /\ pc = [t \in Tasks |-> "unsubmitted"]
    /\ resp = [t \in Tasks |-> NoResponse]
    /\ nread = [t \in Tasks |-> 0]
    /\ fh = [t \in Tasks |-> "none"]
    /\ pos = [t \in Tasks |-> 0]
    /\ fut = [t \in Tasks |-> [done |-> FALSE, exception |-> "None"]]
    /\ files = [f \in FileNames |-> NoFile]
    /\ stderr = <<>>
    /\ wroteAfterSet = [t \in Tasks |-> 0]
    /\ readAfterSet = [t \in Tasks |-> 0]
    /\ doneOrder = <<>>
    /\ startedAfterSet = [t \in Tasks |-> FALSE]
    /\ run = 1
    /\ files0 = files
    /\ prevSet = FALSE

\* ------------------------------------------------------- the main thread

workerVars == <<pc, resp, nread, fh, pos, fut, files, histVars>>

\* d[k] = v on a dict kept as a sequence of entries in insertion order
DictPut_Rebuilt(d, k, v) == <<[key |-> k, val |-> v]>>

DictPut(d, k, v) ==
    IF \E j \in 1..Len(d) : d[j].key = k
    THEN [j \in 1..Len(d) |-> IF d[j].key = k THEN [d[j] EXCEPT !.val = v] ELSE d[j]]
    ELSE Append(d, [key |-> k, val |-> v])

\* what line 73 would test if the assertion were missing
ResDirOk_Unchecked == TRUE

\* line 73: res_dir.exists()
ResDirOk == resDirExists

\* line 73: assert res_dir.exists()
AssertResDir ==
    /\ pcMain = "assert"
    /\ IF ResDirOk
       THEN pcMain' = "maxlen" /\ exc' = exc
       ELSE pcMain' = "raised" /\ exc' = "AssertionError"
    /\ UNCHANGED <<inputVars, interrupts, maxLen, rows, ev, idx, futures,
                   stderr, workerVars>>

\* line 75: max() of an empty list raises ValueError
ComputeMaxLen ==
    /\ pcMain = "maxlen"
    /\ IF Len(urls) = 0
       THEN pcMain' = "raised" /\ exc' = "ValueError" /\ maxLen' = maxLen
       ELSE pcMain' = "pbars" /\ exc' = exc /\ maxLen' = MaxLabelSize(urls)
    /\ UNCHANGED <<inputVars, interrupts, rows, ev, idx, futures, stderr,
                   workerVars>>

\* line 76: progress_bars = [tqdm(ncols=150) for _ in urls]
CreatePbars ==
    /\ pcMain = "pbars"
    /\ rows' = [t \in Tasks |-> NewRow]
    /\ pcMain' = "event"
    /\ UNCHANGED <<inputVars, exc, interrupts, maxLen, ev, idx, futures,
                   stderr, workerVars>>

\* what line 79 would be with one module-level Event used by every call
CreateEvent_Shared ==
    /\ pcMain = "event"
    /\ pcMain' = "submit"
    /\ UNCHANGED <<inputVars, exc, interrupts, maxLen, rows, ev, idx, futures,
                   stderr, workerVars>>

\* line 79: ev = threading.Event(), a new Event, not set
CreateEvent ==
    /\ pcMain = "event"
    /\ ev' = FALSE
    /\ pcMain' = "submit"
    /\ UNCHANGED <<inputVars, exc, interrupts, maxLen, rows, idx, futures,
                   stderr, workerVars>>

\* lines 83-86, one iteration: ex.submit(download, url, pb, ...) queues the
\* download and its Future becomes a key of the dict, with value (url, )
Submit ==
    /\ pcMain = "submit"
    /\ idx < Len(urls)
    /\ idx' = idx + 1
    /\ pc' = [pc EXCEPT ![idx + 1] = "queued"]
    /\ futures' = DictPut(futures, idx + 1, <<urls[idx + 1]>>)
    /\ UNCHANGED <<inputVars, pcMain, exc, interrupts, maxLen, rows, ev,
                   stderr, resp, nread, fh, pos, fut, files, histVars>>

\* lines 83-86: the comprehension is exhausted
SubmitDone ==
    /\ pcMain = "submit"
    /\ idx = Len(urls)
    /\ pcMain' = "as_completed"
    /\ UNCHANGED <<inputVars, exc, interrupts, maxLen, rows, ev, idx,
                   futures, stderr, workerVars>>

\* line 87: as_completed(futures) builds an iterator nobody consumes
AsCompleted ==
    /\ pcMain = "as_completed"
    /\ pcMain' = "shutdown"
    /\ UNCHANGED <<inputVars, exc, interrupts, maxLen, rows, ev, idx,
                   futures, stderr, workerVars>>

\* a join that waits for a finished download of every input URL, submitted
\* or not
WorkersJoined_EveryUrl == \A t \in Tasks : Terminal(t)

\* ThreadPoolExecutor.shutdown(wait=False) would not wait
WorkersJoined_NoWait == TRUE

\* line 82, leaving the with block: ThreadPoolExecutor.__exit__ calls
\* shutdown(wait=True), which joins every worker thread
WorkersJoined == \A t \in Tasks : ~Running(t)

\* line 82: the with block is left once the workers are joined; a
\* KeyboardInterrupt raised in its body goes on to the except clause
ExitWith ==
    /\ pcMain = "shutdown"
    /\ WorkersJoined
    /\ pcMain' = IF exc = "KeyboardInterrupt" THEN "except" ELSE "finally"
    /\ UNCHANGED <<inputVars, exc, interrupts, maxLen, rows, ev, idx,
                   futures, stderr, workerVars>>

\* lines 88-90: except KeyboardInterrupt: ev.set(); raise
ExceptInterrupt ==
    /\ pcMain = "except"
    /\ ev' = TRUE
    /\ pcMain' = "finally"
    /\ UNCHANGED <<inputVars, exc, interrupts, maxLen, rows, idx, futures,
                   stderr, workerVars>>

\* lines 36-38 (called at line 92): close_pbars closes the next row
ClosePbar ==
    /\ pcMain = "finally"
    /\ \E t \in Tasks :
        /\ ~rows[t].closed
        /\ \A u \in Tasks : u < t => rows[u].closed
        /\ rows' = [rows EXCEPT ![t].closed = TRUE]
    /\ UNCHANGED <<inputVars, mainVars, ev, workerVars>>

\* lines 91-93: after the finally clause, re-raise what is being unwound,
\* or return futures
LeaveRunTasks ==
    /\ pcMain = "finally"
    /\ \A t \in Tasks : rows[t].closed
    /\ pcMain' = IF exc = "none" THEN "returned" ELSE "raised"
    /\ UNCHANGED <<inputVars, exc, interrupts, maxLen, rows, ev, idx,
                   futures, stderr, workerVars>>

\* A SIGINT: KeyboardInterrupt is raised in the main thread at the statement
\* it is executing.  Before the try (lines 72-80) and inside the finally
\* clause (line 92) it leaves run_tasks at once; in the body of the with
\* (lines 83-87) it first runs __exit__, which joins the workers; during
\* that join (line 82) it abandons the join and reaches the except clause;
\* inside the except clause, before ev.set() took effect, it goes on to the
\* finally clause.
Interrupt ==
    /\ interrupts < MaxInterrupts
    /\ interrupts' = interrupts + 1
    /\ exc' = "KeyboardInterrupt"
    /\ \/ /\ pcMain \in {"assert", "maxlen", "pbars", "event", "finally"}
          /\ pcMain' = "raised"
       \/ /\ pcMain \in {"submit", "as_completed"}
          /\ pcMain' = "shutdown"
       \/ /\ pcMain = "shutdown"
          /\ pcMain' = "except"
       \/ /\ pcMain = "except"
          /\ pcMain' = "finally"
    /\ UNCHANGED <<inputVars, maxLen, rows, ev, idx, futures, stderr,
                   workerVars>>

\* the text format_output writes for one future that holds an exception:
\* f"\nFailed to fetch {url}\n{err}", err the formatted traceback
Diagnostic(url, e) == <<"\nFailed to fetch ">> \o url \o <<"\n", e>>

\* lines 96-103: what format_output writes for the entries d[1..n]
RECURSIVE FormatEntries(_, _)
FormatEntries(d, n) ==
    IF n = 0 THEN <<>>
    ELSE LET e == d[n]
             rest == FormatEntries(d, n - 1)
         IN  IF fut[e.key].exception # "None"
             THEN Append(rest, Diagnostic(e.val[1], fut[e.key].exception))
             ELSE rest

\* lines 111-112: main calls format_output on what run_tasks returned
FormatOutput ==
    /\ pcMain = "returned"
    /\ stderr' = FormatEntries(futures, Len(futures))
    /\ pcMain' = "formatted"
    /\ UNCHANGED <<inputVars, exc, interrupts, maxLen, rows, ev, idx,
                   futures, workerVars>>

\* ---------------------------------------------------------- one download

mainState == <<inputVars, mainVars, ev>>

\* the Future of a download that returned (None) or raised e
Returned == [done |-> TRUE, exception |-> "None"]
Raised(e) == [done |-> TRUE, exception |-> e]

\* the content of a file opened without truncation (mode 'r+b')
OpenedData_NoTruncate(old) == old

\* line 62: the content of a file just opened with mode 'wb': truncated
OpenedData(old) == <<>>

\* the state of f if the file were opened without a with block
ClosedByWith_Leak == "open"

\* line 62: the state of f once the with block is left, on any path
ClosedByWith == "closed"

\* f.write(chunk) with every chunk written at the start of the file
WriteAt_Rewind(data, p, chunk) ==
    IF Len(data) > 0
    THEN [j \in 1..Len(data) |-> IF j = 1 THEN chunk ELSE data[j]]
    ELSE <<chunk>>

\* f.write(chunk) at position p (in chunks) of a file's data
WriteAt(data, p, chunk) ==
    IF p < Len(data)
    THEN [j \in 1..Len(data) |-> IF j = p + 1 THEN chunk ELSE data[j]]
    ELSE Append(data, chunk)

\* line 49: requests.get(url, stream=True) answers
Get(t) ==
    /\ pc[t] = "queued"
    /\ \E r \in Responses : resp' = [resp EXCEPT ![t] = r]
    /\ pc' = [pc EXCEPT ![t] = "validate"]
    /\ startedAfterSet' = [startedAfterSet EXCEPT ![t] = ev]
    /\ UNCHANGED <<mainState, rows, nread, fh, pos, fut, files, wroteAfterSet,
                   readAfterSet, doneOrder>>

\* line 49: requests.get raises (no connection, malformed URL)
GetFails(t) ==
    /\ pc[t] = "queued"
    /\ pc' = [pc EXCEPT ![t] = "raised"]
    /\ fut' = [fut EXCEPT ![t] = Raised("RequestException")]
    /\ doneOrder' = Append(doneOrder, t)
    /\ startedAfterSet' = [startedAfterSet EXCEPT ![t] = ev]
    /\ UNCHANGED <<mainState, rows, resp, nread, fh, pos, files, wroteAfterSet,
                   readAfterSet>>

\* lines 51-55: an invalid response is written to the row and download returns
ValidateFails(t) ==
    /\ pc[t] = "validate"
    /\ ~ValidateResponse(resp[t])[1]
    /\ rows' = [rows EXCEPT ![t] =
                  SetDescription(@, FailText(urls[t], ValidateResponse(resp[t])[2]))]
    /\ pc' = [pc EXCEPT ![t] = "ret_invalid"]
    /\ fut' = [fut EXCEPT ![t] = Returned]
    /\ doneOrder' = Append(doneOrder, t)
    /\ UNCHANGED <<mainState, resp, nread, fh, pos, files, wroteAfterSet,
                   readAfterSet, startedAfterSet>>

\* lines 51-60: a valid response; size, max_iterations, init_progress_bar.
\* resp.headers['content-length'] raises KeyError when the header is absent.
InitProgressBar(t) ==
    /\ pc[t] = "validate"
    /\ ValidateResponse(resp[t])[1]
    /\ IF resp[t].hasCL
       THEN /\ rows' = [rows EXCEPT ![t] =
                          [SetDescription(@, FormatLabel(urls[t], maxLen))
                              EXCEPT !.total = MaxIterations(resp[t].body)]]
            /\ pc' = [pc EXCEPT ![t] = "open"]
            /\ UNCHANGED <<fut, doneOrder>>
       ELSE /\ rows' = rows
            /\ pc' = [pc EXCEPT ![t] = "raised"]
            /\ fut' = [fut EXCEPT ![t] = Raised("KeyError")]
            /\ doneOrder' = Append(doneOrder, t)
    /\ UNCHANGED <<mainState, resp, nread, fh, pos, files, wroteAfterSet,
                   readAfterSet, startedAfterSet>>

\* lines 61-62: open(res_dir/file_name, 'wb') creates or truncates the file
OpenFile(t) ==
    /\ pc[t] = "open"
    /\ files' = [files EXCEPT ![FileName(urls[t])] =
                   [exists |-> TRUE, data |-> OpenedData(@.data)]]
    /\ fh' = [fh EXCEPT ![t] = "open"]
    /\ pos' = [pos EXCEPT ![t] = 0]
    /\ pc' = [pc EXCEPT ![t] = "read"]
    /\ UNCHANGED <<mainState, rows, resp, nread, fut, histVars>>

\* line 63: iter_content yields the next chunk
ReadChunk(t) ==
    /\ pc[t] = "read"
    /\ nread[t] < NChunks(resp[t].body)
    /\ nread' = [nread EXCEPT ![t] = @ + 1]
    /\ readAfterSet' = [readAfterSet EXCEPT ![t] = IF ev THEN @ + 1 ELSE @]
    /\ pc' = [pc EXCEPT ![t] = "check"]
    /\ UNCHANGED <<mainState, rows, resp, fh, pos, fut, files, wroteAfterSet,
                   doneOrder, startedAfterSet>>

\* line 63: the stream fails; the with block closes f, download raises
ReadFails(t) ==
    /\ pc[t] = "read"
    /\ nread[t] < NChunks(resp[t].body)
    /\ fh' = [fh EXCEPT ![t] = ClosedByWith]
    /\ pc' = [pc EXCEPT ![t] = "raised"]
    /\ fut' = [fut EXCEPT ![t] = Raised("ReadError")]
    /\ doneOrder' = Append(doneOrder, t)
    /\ UNCHANGED <<mainState, rows, resp, nread, pos, files, wroteAfterSet,
                   readAfterSet, startedAfterSet>>

\* lines 62-67: the stream is exhausted; the with block closes f, download
\* returns
EndOfStream(t) ==
    /\ pc[t] = "read"
    /\ nread[t] = NChunks(resp[t].body)
    /\ fh' = [fh EXCEPT ![t] = ClosedByWith]
    /\ pc' = [pc EXCEPT ![t] = "ret_end"]
    /\ fut' = [fut EXCEPT ![t] = Returned]
    /\ doneOrder' = Append(doneOrder, t)
    /\ UNCHANGED <<mainState, rows, resp, nread, pos, files, wroteAfterSet,
                   readAfterSet, startedAfterSet>>

\* what line 64 would be without the test of the event
CancelRequested_Never == FALSE

\* line 64: ev.is_set()
CancelRequested == ev

\* lines 64-65: the event is set; the with block closes f, download returns
CheckCancelled(t) ==
    /\ pc[t] = "check"
    /\ CancelRequested
    /\ fh' = [fh EXCEPT ![t] = ClosedByWith]
    /\ pc' = [pc EXCEPT ![t] = "ret_cancel"]
    /\ fut' = [fut EXCEPT ![t] = Returned]
    /\ doneOrder' = Append(doneOrder, t)
    /\ UNCHANGED <<mainState, rows, resp, nread, pos, files, wroteAfterSet,
                   readAfterSet, startedAfterSet>>

\* lines 64-66: the event is not set; update_progress_bar(pbar)
UpdateProgressBar(t) ==
    /\ pc[t] = "check"
    /\ ~CancelRequested
    /\ rows' = [rows EXCEPT ![t] = UpdateRow(@)]
    /\ pc' = [pc EXCEPT ![t] = "write"]
    /\ UNCHANGED <<mainState, resp, nread, fh, pos, fut, files, histVars>>

\* line 67: f.write(data)
WriteChunk(t) ==
    /\ pc[t] = "write"
    /\ files' = [files EXCEPT ![FileName(urls[t])].data =
                   WriteAt(@, pos[t], Chunk(urls[t], resp[t].body, nread[t]))]
    /\ pos' = [pos EXCEPT ![t] = @ + 1]
    /\ wroteAfterSet' = [wroteAfterSet EXCEPT ![t] = IF ev THEN @ + 1 ELSE @]
    /\ pc' = [pc EXCEPT ![t] = "read"]
    /\ UNCHANGED <<mainState, rows, resp, nread, fh, fut, readAfterSet,
                   doneOrder, startedAfterSet>>

\* line 67: f.write raises (disk full); the with block closes f, download
\* raises
WriteFails(t) ==
    /\ pc[t] = "write"
    /\ fh' = [fh EXCEPT ![t] = ClosedByWith]
    /\ pc' = [pc EXCEPT ![t] = "raised"]
    /\ fut' = [fut EXCEPT ![t] = Raised("WriteError")]
    /\ doneOrder' = Append(doneOrder, t)
    /\ UNCHANGED <<mainState, rows, resp, nread, pos, files, wroteAfterSet,
                   readAfterSet, startedAfterSet>>

\* ----------------------------------------------------------- specification

Next ==
    \/ AssertResDir
    \/ ComputeMaxLen
    \/ CreatePbars
    \/ CreateEvent
    \/ Submit
    \/ SubmitDone
    \/ AsCompleted
    \/ ExitWith
    \/ ExceptInterrupt
    \/ ClosePbar
    \/ LeaveRunTasks
    \/ Interrupt
    \/ FormatOutput
    \/ \E t \in Tasks : Get(t)
    \/ \E t \in Tasks : GetFails(t)
    \/ \E t \in Tasks : ValidateFails(t)
    \/ \E t \in Tasks : InitProgressBar(t)
    \/ \E t \in Tasks : OpenFile(t)
    \/ \E t \in Tasks : ReadChunk(t)
    \/ \E t \in Tasks : ReadFails(t)
    \/ \E t \in Tasks : EndOfStream(t)
    \/ \E t \in Tasks : CheckCancelled(t)
    \/ \E t \in Tasks : UpdateProgressBar(t)
    \/ \E t \in Tasks : WriteChunk(t)
    \/ \E t \in Tasks : WriteFails(t)

Spec == Init /\ [][Next]_vars

\* a step of the main thread inside run_tasks
MainStep ==
    \/ AssertResDir
    \/ ComputeMaxLen
    \/ CreatePbars
    \/ CreateEvent
    \/ Submit
    \/ SubmitDone
    \/ AsCompleted
    \/ ExitWith
    \/ ExceptInterrupt
    \/ ClosePbar
    \/ LeaveRunTasks

\* a step of the worker thread that runs download t
WorkerStep(t) ==
    /\ t \in Tasks
    /\ \/ Get(t)
       \/ GetFails(t)
       \/ ValidateFails(t)
       \/ InitProgressBar(t)
       \/ OpenFile(t)
       \/ ReadChunk(t)
       \/ ReadFails(t)
       \/ EndOfStream(t)
       \/ CheckCancelled(t)
       \/ UpdateProgressBar(t)
       \/ WriteChunk(t)
       \/ WriteFails(t)

\* Spec with the threads scheduled fairly: the main thread and every worker
\* take their next step when they have one; every response arrives and
\* every stream delivers its next chunk, ends or fails.  SIGINTs are not
\* forced.
FairSpec ==
    /\ Spec
    /\ WF_vars(MainStep)
    /\ \A t \in 1..MaxUrls : WF_vars(WorkerStep(t))

\* the main thread has left run_tasks (and main may have reported)
MainExited == pcMain \in {"returned", "raised", "formatted"}

\* run_tasks is called again, with the same arguments, once the previous
\* call is over and its downloads have finished: the output directory is
\* as that call left it, everything else is as at the first call.  ev keeps
\* its value until line 79 binds it to a new Event.
NewRun ==
    /\ run < MaxRuns
    /\ MainExited
    /\ \A t \in Tasks : ~Running(t)
    /\ run' = run + 1
    /\ files0' = files
    /\ prevSet' = ev
    /\ pcMain' = "assert"
    /\ exc' = "none"
    /\ interrupts' = 0
    /\ maxLen' = 0
    /\ rows' = <<>>
    /\ idx' = 0
    /\ futures' = <<>>
    /\ pc' = [t \in Tasks |-> "unsubmitted"]
    /\ resp' = [t \in Tasks |-> NoResponse]
    /\ nread' = [t \in Tasks |-> 0]
    /\ fh' = [t \in Tasks |-> "none"]
    /\ pos' = [t \in Tasks |-> 0]
    /\ fut' = [t \in Tasks |-> [done |-> FALSE, exception |-> "None"]]
    /\ stderr' = <<>>
    /\ wroteAfterSet' = [t \in Tasks |-> 0]
    /\ readAfterSet' = [t \in Tasks |-> 0]
    /\ doneOrder' = <<>>
    /\ startedAfterSet' = [t \in Tasks |-> FALSE]
    /\ UNCHANGED <<resDirExists, urls, ev, files>>

\* repeated runs of a short batch on one output directory
InitRuns == Init /\ Len(urls) <= MaxUrlsRuns

NextRuns == Next \/ NewRun

SpecRuns == InitRuns /\ [][NextRuns]_vars

TypeOK ==
    /\ pcMain \in {"assert", "maxlen", "pbars", "event", "submit", "as_completed",
                   "shutdown", "except", "finally", "returned", "raised", "formatted"}
    /\ idx \in 0..Len(urls)
    /\ \A t \in Tasks : pos[t] <= nread[t] /\ nread[t] <= NChunks(resp[t].body)

\* ------------------------------------------------------------------ claims

\* s occurs in d as a contiguous run
IsSubSeq(s, d) ==
    \E j \in 0..(Len(d) - Len(s)) : SubSeq(d, j + 1, j + Len(s)) = s

\* requests.get answered for download t
Received(t) == resp[t] \in Responses

\* the response of download t fails validation as the specification states
\* it: status not 200, or no content-length header
InvalidResponse(t) ==
    Received(t) /\ (resp[t].status # StatusOk \/ ~resp[t].hasCL)

\* the reason the specification asks the status text to carry
ExpectedReason(t) ==
    IF resp[t].status # StatusOk THEN <<ToString(resp[t].status)>>
    ELSE ReasonNotAFile

\* run_tasks returned its result (and main may have reported it)
ReturnedNormally == pcMain \in {"returned", "formatted"}

\* C1: a run_tasks call that is not interrupted returns exactly one entry
\* per input URL, the i-th entry holding the future of the i-th download and
\* the i-th URL, whatever the completion order and also for duplicate URLs.
C1_ResultInInputOrder ==
    ReturnedNormally =>
        /\ Len(futures) = Len(urls)
        /\ \A i \in 1..Len(futures) :
              futures[i].key = i /\ futures[i].val = <<urls[i]>>

\* C1 witness: a returned batch of a duplicated URL whose second download
\* finished first
C1_Witness ==
    /\ pcMain = "returned"
    /\ Len(urls) = 2
    /\ urls[1] = urls[2]
    /\ doneOrder = <<2, 1>>
    /\ Len(futures) = 2

\* C2: when a KeyboardInterrupt leaves run_tasks, no download is still
\* running and no destination file is still open.
C2_DrainedBeforeReraise ==
    (pcMain = "raised" /\ exc = "KeyboardInterrupt") =>
        \A t \in Tasks : ~Running(t) /\ fh[t] # "open"

\* C3: while the event is set a download writes at most one chunk and
\* receives at most one chunk; a download that is about to write while the
\* event is set has neither read nor written since it was set (the chunk is
\* the one whose check it passed before the signal); and a download that
\* received a chunk while the event was set stopped at that chunk's check.
C3_AtMostOneChunkAfterSignal ==
    \A t \in Tasks :
        /\ wroteAfterSet[t] <= 1
        /\ readAfterSet[t] <= 1
        /\ (ev /\ pc[t] = "write") => (wroteAfterSet[t] = 0 /\ readAfterSet[t] = 0)
        /\ (Terminal(t) /\ readAfterSet[t] > 0) => pc[t] = "ret_cancel"

\* C3 witness: one download wrote its one chunk after the signal and then
\* stopped, another started after the signal and stopped without writing
C3_Witness ==
    /\ ev
    /\ \E t \in Tasks :
          pc[t] = "ret_cancel" /\ wroteAfterSet[t] = 1 /\ pos[t] < NChunks(resp[t].body)
    /\ \E t \in Tasks :
          pc[t] = "ret_cancel" /\ wroteAfterSet[t] = 0 /\ pos[t] = 0

\* C4: a download whose response fails validation never opens a file and
\* raises nothing, and once it has returned its row's text contains the URL
\* and the reason.
C4_InvalidResponseNoFile ==
    \A t \in Tasks :
        InvalidResponse(t) =>
            /\ pc[t] \in {"validate", "ret_invalid"}
            /\ fh[t] = "none"
            /\ fut[t].exception = "None"
            /\ Len(urls) = 1 => ~files[FileName(urls[t])].exists
            /\ pc[t] = "ret_invalid" =>
                  /\ fut[t].done
                  /\ IsSubSeq(urls[t], rows[t].desc)
                  /\ IsSubSeq(ExpectedReason(t), rows[t].desc)

\* C4 witness: one download returned on a 404, another on a 200 without
\* content-length
C4_Witness ==
    /\ Len(urls) = 2
    /\ pc[1] = "ret_invalid" /\ resp[1].status # StatusOk
    /\ pc[2] = "ret_invalid" /\ resp[2].status = StatusOk /\ ~resp[2].hasCL

\* C5: in the result run_tasks returns, the future of a download whose
\* response failed validation differs from the future of a download that
\* streamed its file to the end.
C5_InvalidDistinctFromSuccess ==
    pcMain = "returned" =>
        \A t, u \in Tasks :
            (InvalidResponse(t) /\ pc[u] = "ret_end") => fut[t] # fut[u]

\* the downloads that ended failed or cancelled
FailedOrCancelled ==
    { t \in Tasks : pc[t] \in {"ret_invalid", "ret_cancel", "raised"} }

\* C6: format_output writes exactly one diagnostic per download that ended
\* failed or cancelled, and none for the others.
C6_OneDiagnosticPerFailure ==
    pcMain = "formatted" => Len(stderr) = Cardinality(FailedOrCancelled)

\* C7: no download stopped by the cancellation check has the same recorded
\* outcome as a download whose stream was exhausted.
C7_CancelledDistinctFromSucceeded ==
    \A t, u \in Tasks :
        (pc[t] = "ret_cancel" /\ pc[u] = "ret_end") => fut[t] # fut[u]

\* C8: when run_tasks returns normally, every download has reached a
\* terminal state.
C8_ReturnsAfterAllTerminal ==
    pcMain = "returned" => \A t \in Tasks : Terminal(t) /\ fut[t].done

\* C8 witness: run_tasks returned after two downloads streamed to the end
C8_Witness ==
    /\ pcMain = "returned"
    /\ Len(urls) = 2
    /\ \A t \in Tasks : pc[t] = "ret_end" /\ pos[t] = MaxChunks

\* C9: when run_tasks exits after creating the rows, every row is closed.
C9_RowsClosedOnExit ==
    (pcMain \in {"returned", "raised"} /\ Len(rows) > 0) =>
        \A t \in Tasks : rows[t].closed

\* a download ended on an error: its request failed, its response was
\* invalid, or reading or writing failed
EndedOnError(t) == pc[t] \in {"ret_invalid", "raised"}

\* C10: an error of a download is held by its own future and does not leave
\* run_tasks: once work has been dispatched the only exception that leaves
\* run_tasks is the KeyboardInterrupt, a normal return finds every download
\* terminal, and the future of every download that ended on an error holds
\* that error.
C10_TaskErrorsCaptured ==
    /\ (pcMain = "raised" /\ idx >= 1) => exc = "KeyboardInterrupt"
    /\ ReturnedNormally => (exc = "none" /\ \A u \in Tasks : Terminal(u))
    /\ \A t \in Tasks : EndedOnError(t) => fut[t].exception # "None"

\* C11: while run_tasks runs on an output directory that does not exist,
\* no row is created, nothing is submitted, no request is issued and the
\* directory's files stay as they were; run_tasks ends with the assertion
\* error.
C11_MissingDirFailsFast ==
    ~resDirExists =>
        /\ pcMain \in {"assert", "raised"}
        /\ (pcMain = "raised" /\ interrupts = 0) => exc = "AssertionError"
        /\ rows = <<>>
        /\ idx = 0 /\ futures = <<>>
        /\ \A t \in Tasks : pc[t] = "unsubmitted" /\ ~Received(t) /\ fh[t] = "none"
        /\ files = files0

\* C11 witness: run_tasks raised the assertion error for a two-URL batch
C11_Witness ==
    /\ ~resDirExists
    /\ Len(urls) = 2
    /\ pcMain = "raised"
    /\ exc = "AssertionError"

\* C12: a download that has left download() holds no open file: its file
\* object is closed if it ever opened one, whether the stream was exhausted,
\* the event stopped it, or a read or a write failed.
C12_HandleClosedWhenTerminal ==
    \A t \in Tasks :
        Terminal(t) =>
            /\ fh[t] # "open"
            /\ (pc[t] \in {"ret_end", "ret_cancel"}) => fh[t] = "closed"
            /\ (fut[t].exception \in {"ReadError", "WriteError"}) => fh[t] = "closed"

\* C12 witness: one download failed on a write, the other was stopped by the
\* event, and both files are closed
C12_Witness ==
    /\ Len(urls) = 2
    /\ fut[1].exception = "WriteError" /\ fh[1] = "closed"
    /\ pc[2] = "ret_cancel" /\ fh[2] = "closed" /\ pos[2] > 0

\* C13: the event is scoped to one run_tasks call.  In every step: the
\* event becomes set only in the except clause of an interrupted call; a
\* set event is never cleared, only replaced at line 79 of a later call;
\* line 79 always yields an event that is not set; and a download is
\* stopped by the event only in a call that was itself interrupted.
C13_TokenScopedToRun ==
    [][ /\ (~ev /\ ev') => (pcMain = "except" /\ exc = "KeyboardInterrupt")
        /\ (ev /\ ~ev') => (pcMain = "event" /\ pcMain' = "submit" /\ run > 1)
        /\ (pcMain = "event" /\ pcMain' = "submit") => ~ev'
        /\ \A t \in Tasks :
              (pc[t] = "check" /\ pc'[t] = "ret_cancel") => interrupts >= 1
      ]_vars

\* C13 witness: the previous call ended with its event set, and a download
\* of the current call streamed to the end past every check
C13_Witness ==
    /\ run = 2
    /\ prevSet
    /\ ~ev
    /\ interrupts = 0
    /\ Len(urls) = 1
    /\ pc[1] = "ret_end" /\ pos[1] = MaxChunks

\* the chunks iter_content has delivered to download t, in delivery order
Delivered(t) == [k \in 1..nread[t] |-> Chunk(urls[t], resp[t].body, k)]

\* the size in bytes of a file's data
RECURSIVE Bytes(_)
Bytes(data) ==
    IF Len(data) = 0 THEN 0 ELSE data[Len(data)].len + Bytes(SubSeq(data, 1, Len(data) - 1))

\* no other download of the batch writes to the file name of download t
OwnFileName(t) ==
    \A u \in Tasks : u # t => FileName(urls[u]) # FileName(urls[t])

\* C14: when a download with a valid response has exhausted its stream, and
\* no other download of the batch has the same file name, the file named by
\* the URL's final path segment exists and holds exactly the delivered
\* chunks in delivery order, its size being the size of the body; a
\* single-URL batch touches no other file.
C14_FileIsTheStream ==
    \A t \in Tasks :
        (pc[t] = "ret_end" /\ OwnFileName(t)) =>
            LET f == files[FileName(urls[t])]
            IN  /\ f.exists
                /\ nread[t] = NChunks(resp[t].body)
                /\ f.data = Delivered(t)
                /\ Bytes(f.data) = resp[t].body
                /\ Len(urls) = 1 =>
                      \A g \in FileNames : g # FileName(urls[t]) => files[g] = files0[g]

\* C14 witness: the download of h/d/b streamed its whole body into file b
C14_Witness ==
    /\ Len(urls) = 2
    /\ urls[1] = <<"h", "/", "d", "/", "b">>
    /\ urls[2] = <<"h", "/", "a">>
    /\ pc[1] = "ret_end"
    /\ Len(files[<<"b">>].data) = MaxChunks
    /\ Bytes(files[<<"b">>].data) = ChunkSize * MaxChunks - 48
    /\ files[<<"b">>].data[MaxChunks].len < ChunkSize
    /\ pc[2] = "write"

\* C15: in a later run on the same output directory, a download whose
\* destination already exists and whose stream is exhausted ends without an
\* exception, and the file then holds exactly the chunks this run delivered:
\* nothing of the earlier content remains, also when it was longer.
C15_RerunOverwrites ==
    \A t \in Tasks :
        (run > 1 /\ pc[t] = "ret_end" /\ OwnFileName(t)
            /\ files0[FileName(urls[t])].exists) =>
            /\ fut[t] = Returned
            /\ files[FileName(urls[t])].exists
            /\ files[FileName(urls[t])].data = Delivered(t)
            /\ Bytes(files[FileName(urls[t])].data) = resp[t].body

\* C15 witness: the first run left a file of MaxChunks chunks, the second
\* run's download of the same URL streamed an empty body to the end
C15_Witness ==
    /\ run = 2
    /\ Len(urls) = 1
    /\ Len(files0[FileName(urls[1])].data) = MaxChunks
    /\ pc[1] = "ret_end"
    /\ resp[1].body = 0
    /\ files[FileName(urls[1])] = [exists |-> TRUE, data |-> <<>>]
    /\ pcMain = "returned"

\* C16: with fair scheduling and finite streams every call of run_tasks
\* eventually exits, by returning or by raising.
C16_RunTasksExits == <>MainExited

\* C16 witness: run_tasks has exited with the KeyboardInterrupt after the
\* event was set while a download was mid-stream, which then stopped
C16_Witness ==
    /\ pcMain = "raised"
    /\ exc = "KeyboardInterrupt"
    /\ ev
    /\ \E t \in Tasks :
          /\ pc[t] = "ret_cancel"
          /\ ~startedAfterSet[t]
          /\ pos[t] > 0 /\ pos[t] < NChunks(resp[t].body)

\* C17: for an empty URL list and an existing output directory, a run_tasks
\* call that is not interrupted returns a result of 0 entries and raises
\* nothing.
C17_EmptyListReturnsEmpty ==
    (Len(urls) = 0 /\ resDirExists /\ interrupts = 0 /\ MainExited) =>
        /\ ReturnedNormally
        /\ exc = "none"
        /\ Len(futures) = 0

\* C18: in every terminal state of a download, the number of increments of
\* its progress row equals the number of chunks written to its file.
C18_IncrementsEqualWrites ==
    \A t \in Tasks : Terminal(t) => rows[t].n = pos[t]

\* download t calls set_description, sets total or calls update on its row
\* in this step
RowCall(t) ==
    \/ pc[t] = "validate" /\ pc'[t] \in {"ret_invalid", "open"}
    \/ pc[t] = "check" /\ pc'[t] = "write"

\* C19: no download touches its progress row after the row was closed.
C19_NoRowCallAfterClose ==
    [][\A t \in Tasks : RowCall(t) => ~rows[t].closed]_vars

\* C20 as claimed: a download that began executing while the event was set
\* leaves a pre-existing file of its name with its content unchanged.
C20_PreexistingFileUnchanged ==
    \A t \in Tasks :
        (startedAfterSet[t] /\ Terminal(t) /\ OwnFileName(t)
            /\ files0[FileName(urls[t])].exists) =>
            files[FileName(urls[t])] = files0[FileName(urls[t])]

\* C20 amended: a download that began executing while the event was set
\* writes no chunk; a file of its name that no other download of the batch
\* writes is unchanged as long as the download has not opened it (its
\* request failed or its response was invalid), and is empty, truncated by
\* open(), once it has.
C20_TruncatedUnlessNotOpened ==
    \A t \in Tasks :
        (startedAfterSet[t] /\ OwnFileName(t)) =>
            /\ pos[t] = 0
            /\ wroteAfterSet[t] = 0
            /\ fh[t] = "none" => files[FileName(urls[t])] = files0[FileName(urls[t])]
            /\ fh[t] # "none" =>
                  files[FileName(urls[t])] = [exists |-> TRUE, data |-> <<>>]

\* C20 witness: the first run left a file of MaxChunks chunks; in the second
\* run the download began after the event was set, was stopped at its first
\* check, and the file is empty
C20_Witness ==
    /\ run = 2
    /\ Len(urls) = 1
    /\ Len(files0[FileName(urls[1])].data) = MaxChunks
    /\ startedAfterSet[1]
    /\ pc[1] = "ret_cancel"
    /\ nread[1] = 1
    /\ files[FileName(urls[1])].data = <<>>

====
